---- MODULE Spec2Model ----
(***************************************************************************)
(* Model of milvus/client/abstract.py: the TopKQueryResult result set      *)
(* (eager / async / lazy construction, shape, len, indexing, iteration,    *)
(* result(timeout) and __repr__), the IndexParam constructor and the       *)
(* abstract ConnectIntf operation set.                                     *)
(*                                                                         *)
(* Python values are modelled as follows.  A list is a sequence.  A        *)
(* protobuf response is a record with the fields the code reads            *)
(* (topk_query_result, query_result_arrays, id, distance).  An object      *)
(* reference is an index into the heap objs.  A value whose Python type    *)
(* matters (IndexParam's arguments) is a record tagged with its type.      *)
(* A call leaves its outcome in ret: the exception raised (exc, "None"     *)
(* when the call returned) and the value returned (val).                   *)
(***************************************************************************)
EXTENDS Integers, Sequences, FiniteSets, TLC

VARIABLES
    response,   \* the raw response of the search: what the future yields, or the raw_source itself
    remaining,  \* time units until the underlying future completes (0: completed)
    objs,       \* heap of TopKQueryResult objects: _raw, _async, _lazy, _array
    timedOut,   \* objects on which a result() call has raised Timeout (history)
    ret         \* outcome of the last call: op, self, arg, exc, val

vars == <<response, remaining, objs, timedOut, ret>>

----------------------------------------------------------------------------
(* Bounds *)

MaxTopK == 2        \* matches per query
MaxQueries == 2     \* queries per response
MaxLatency == 2     \* time units a future may take to complete
MaxTimeout == 2     \* timeout arguments 1..MaxTimeout
MaxObjs == 2        \* objects on the heap
MaxReprQueries == 6 \* queries per response when rendering
MaxReprTopK == 4    \* matches per query when rendering
MaxIndexInt == 6    \* integer index_type arguments -1..MaxIndexInt

(* Program constants *)

ReprThreshold == 5  \* __repr__ abbreviates result sets longer than this
ReprHead == 3       \* rows, and matches per row, an abbreviated rendering keeps

Min(a, b) == IF a < b THEN a ELSE b

----------------------------------------------------------------------------
(* Raw responses *)

\* The ranked matches of one query: distances ascending (best first), the ids
\* of the matches in ascending or in descending order.
Ascending(k) == [j \in 1..k |-> j]

Descending(k) == [j \in 1..k |-> k + 1 - j]

IdOrders(maxLen) == UNION { {Ascending(k), Descending(k)} : k \in 0..maxLen }

Ranked(s) == [j \in 1..Len(s) |-> [id |-> s[j], distance |-> j]]

TopKResults == { [query_result_arrays |-> Ranked(s)] : s \in IdOrders(MaxTopK) }

Responses ==
    { [topk_query_result |-> q] : q \in UNION { [1..n -> TopKResults] : n \in 0..MaxQueries } }

\* Responses large enough for __repr__ to abbreviate: the ids descending.
ReprTopKResults ==
    { [query_result_arrays |-> Ranked(Descending(k))] : k \in 0..MaxReprTopK }

ReprResponses ==
    { [topk_query_result |-> q]
      : q \in UNION { [1..n -> ReprTopKResults] : n \in 0..MaxReprQueries } }

EmptyResponse == [topk_query_result |-> <<>>]

Future == [kind |-> "future"]

Timeouts == 1..MaxTimeout

NoCall == [op |-> "none", self |-> 0, arg |-> 0, exc |-> "None", val |-> 0]

Returned(op, o, arg, val) == [op |-> op, self |-> o, arg |-> arg, exc |-> "None", val |-> val]

Raised(op, o, arg, exc) == [op |-> op, self |-> o, arg |-> arg, exc |-> exc, val |-> 0]

----------------------------------------------------------------------------
(* TopKQueryResult *)

\* Mutant: the rows are appended in reverse query order.
_create_array_reversed(raw) ==
    [i \in 1..Len(raw.topk_query_result) |->
        raw.topk_query_result[Len(raw.topk_query_result) + 1 - i].query_result_arrays]

_create_array(raw) ==
    [i \in 1..Len(raw.topk_query_result) |-> raw.topk_query_result[i].query_result_arrays]

TopKQueryResult(raw_source, async_, lazy_) ==
    [_raw |-> raw_source,
     _async |-> async_,
     _lazy |-> lazy_,
     _array |-> IF ~(async_ \/ lazy_) THEN _create_array(raw_source) ELSE <<>>]

Init ==
    /\ response \in Responses
    /\ \E async_ \in BOOLEAN, lazy_ \in BOOLEAN :
         /\ remaining \in (IF async_ THEN 0..MaxLatency ELSE {0})
         /\ objs = << TopKQueryResult(IF async_ THEN Future ELSE response, async_, lazy_) >>
    /\ timedOut = {}
    /\ ret = NoCall

\* Mutant: the column count is taken from the last row.
shape_last_row(o) ==
    /\ LET row == Len(objs[o]._array)
           column == IF row = 0 THEN 0 ELSE Len(objs[o]._array[row])
       IN ret' = Returned("shape", o, 0, <<row, column>>)
    /\ UNCHANGED <<response, remaining, objs, timedOut>>

shape(o) ==
    /\ LET row == Len(objs[o]._array)
           column == IF row = 0 THEN 0 ELSE Len(objs[o]._array[1])
       IN ret' = Returned("shape", o, 0, <<row, column>>)
    /\ UNCHANGED <<response, remaining, objs, timedOut>>

raw(o) ==
    /\ ret' = Returned("raw", o, 0, objs[o]._raw)
    /\ UNCHANGED <<response, remaining, objs, timedOut>>

\* self._raw.result(timeout=timeout) on the future: TRUE when the future
\* completes within the timeout, FALSE when the wait ends in a Timeout error.
FutureCompletesWithin(timeout) == remaining <= timeout

\* Mutant: the timeout is not passed on, so the wait lasts until the future completes.
result_no_timeout(o, timeout) ==
    IF objs[o]._async = TRUE
    THEN /\ Len(objs) < MaxObjs
         /\ remaining' = 0
         /\ objs' = Append(objs, TopKQueryResult(response, FALSE, objs[o]._lazy))
         /\ ret' = Returned("result", o, timeout, Len(objs) + 1)
         /\ UNCHANGED <<response, timedOut>>
    ELSE /\ ret' = Returned("result", o, timeout, o)
         /\ UNCHANGED <<response, remaining, objs, timedOut>>

\* Mutant: the completed response is materialized into self, which is returned.
result_in_place(o, timeout) ==
    IF objs[o]._async = TRUE
    THEN IF FutureCompletesWithin(timeout)
         THEN /\ remaining' = 0
              /\ objs' = [objs EXCEPT ![o] = TopKQueryResult(response, FALSE, objs[o]._lazy)]
              /\ ret' = Returned("result", o, timeout, o)
              /\ UNCHANGED <<response, timedOut>>
         ELSE /\ remaining' = remaining - timeout
              /\ timedOut' = timedOut \cup {o}
              /\ ret' = Raised("result", o, timeout, "Timeout")
              /\ UNCHANGED <<response, objs>>
    ELSE /\ ret' = Returned("result", o, timeout, o)
         /\ UNCHANGED <<response, remaining, objs, timedOut>>

result(o, timeout) ==
    IF objs[o]._async = TRUE
    THEN IF FutureCompletesWithin(timeout)
         THEN /\ Len(objs) < MaxObjs
              /\ remaining' = 0
              /\ objs' = Append(objs, TopKQueryResult(response, FALSE, objs[o]._lazy))
              /\ ret' = Returned("result", o, timeout, Len(objs) + 1)
              /\ UNCHANGED <<response, timedOut>>
         ELSE /\ remaining' = remaining - timeout
              /\ timedOut' = timedOut \cup {o}
              /\ ret' = Raised("result", o, timeout, "Timeout")
              /\ UNCHANGED <<response, objs>>
    ELSE /\ ret' = Returned("result", o, timeout, o)
         /\ UNCHANGED <<response, remaining, objs, timedOut>>

\* list.__getitem__ with an integer: negative positions count from the end.
ListGetItem(array, item) ==
    LET n == Len(array)
    IN IF item >= n \/ item < 0 - n
       THEN [exc |-> "IndexError", val |-> 0]
       ELSE [exc |-> "None", val |-> array[(IF item < 0 THEN item + n ELSE item) + 1]]

\* list.__getitem__ with the slice [:stop], stop >= 0.
ListHead(array, stop) == SubSeq(array, 1, Min(stop, Len(array)))

Items == (0 - MaxQueries - 1)..(MaxQueries + 1)

__getitem__(o, item) ==
    /\ LET r == ListGetItem(objs[o]._array, item)
       IN ret' = [op |-> "__getitem__", self |-> o, arg |-> item, exc |-> r.exc, val |-> r.val]
    /\ UNCHANGED <<response, remaining, objs, timedOut>>

\* A fresh list iterator starts at row 0; val is what consuming it yields.
__iter__(o) ==
    /\ ret' = Returned("__iter__", o, 0, objs[o]._array)
    /\ UNCHANGED <<response, remaining, objs, timedOut>>

__len__(o) ==
    /\ ret' = Returned("__len__", o, 0, Len(objs[o]._array))
    /\ UNCHANGED <<response, remaining, objs, timedOut>>

lam(x) == "(id:" \o ToString(x.id) \o ", distance:" \o ToString(x.distance) \o ")"

RECURSIVE Join(_, _)
Join(sep, strs) ==
    IF strs = <<>> THEN ""
    ELSE IF Len(strs) = 1 THEN strs[1]
    ELSE strs[1] \o sep \o Join(sep, Tail(strs))

Map(topk) == [j \in 1..Len(topk) |-> lam(topk[j])]

\* The abbreviated rendering of the rows from position i on; an empty row
\* makes topk[-1] raise IndexError.
RECURSIVE Middle(_, _)
Middle(rows, i) ==
    IF i > Len(rows) THEN [exc |-> "None", val |-> ""]
    ELSE LET topk == rows[i]
             last == ListGetItem(topk, 0 - 1)
             rest == Middle(rows, i + 1)
         IN IF last.exc # "None" THEN [exc |-> last.exc, val |-> 0]
            ELSE IF rest.exc # "None" THEN rest
            ELSE [exc |-> "None",
                  val |-> " [ " \o Join(",\n   ", Map(ListHead(topk, ReprHead)))
                          \o ",\n   ..."
                          \o "\n   " \o lam(last.val) \o " ]\n\n"
                          \o rest.val]

Repr(array) ==
    IF Len(array) > ReprThreshold
    THEN LET middle == Middle(ListHead(array, ReprHead), 1)
             spaces == "        ......\n        ......"
         IN IF middle.exc # "None" THEN middle
            ELSE [exc |-> "None", val |-> "[\n" \o middle.val \o spaces \o "\n]"]
    ELSE LET str_out_list ==
                 [i \in 1..Len(array) |-> "[\n" \o Join(",\n", Map(array[i])) \o "\n]"]
         IN [exc |-> "None", val |-> "[\n" \o Join(",\n", str_out_list) \o "\n]"]

__repr__(o) ==
    /\ LET r == Repr(objs[o]._array)
       IN ret' = [op |-> "__repr__", self |-> o, arg |-> 0, exc |-> r.exc, val |-> r.val]
    /\ UNCHANGED <<response, remaining, objs, timedOut>>

\* The underlying future makes progress while the caller does something else.
Tick ==
    /\ remaining > 0
    /\ remaining' = remaining - 1
    /\ UNCHANGED <<response, objs, timedOut, ret>>

Next ==
    \/ \E o \in DOMAIN objs : shape(o)
    \/ \E o \in DOMAIN objs : raw(o)
    \/ \E o \in DOMAIN objs, timeout \in Timeouts : result(o, timeout)
    \/ \E o \in DOMAIN objs, item \in Items : __getitem__(o, item)
    \/ \E o \in DOMAIN objs : __iter__(o)
    \/ \E o \in DOMAIN objs : __len__(o)
    \/ \E o \in DOMAIN objs : __repr__(o)
    \/ Tick

Spec == Init /\ [][Next]_vars

----------------------------------------------------------------------------
(* Rendering of large result sets *)

InitRepr ==
    /\ response \in ReprResponses
    /\ remaining = 0
    /\ objs = << TopKQueryResult(response, FALSE, FALSE) >>
    /\ timedOut = {}
    /\ ret = NoCall

NextRepr ==
    \/ \E o \in DOMAIN objs : __repr__(o)
    \/ \E o \in DOMAIN objs : shape(o)

SpecRepr == InitRepr /\ [][NextRepr]_vars

----------------------------------------------------------------------------
(* IndexParam *)

INVALID == 0

\* IndexType: 0-invalid, 1-flat, 2-ivflat, 3-IVF_SQ8, 4-MIX_NSG
IndexTypeValues == 0..4

PyNone == [t |-> "NoneType", v |-> 0]
PyInt(n) == [t |-> "int", v |-> n]
PyBool(n) == [t |-> "bool", v |-> n]       \* bool is a subclass of int: False = 0, True = 1
PyFloat(n) == [t |-> "float", v |-> n]
PyStr(n) == [t |-> "str", v |-> n]
Member(n) == [t |-> "IndexType", v |-> n]  \* the member of IndexType with value n

IsInt(x) == x.t \in {"int", "bool"}

\* IndexType(value): the member with that value, ValueError when there is none.
IndexType(x) ==
    IF x.v \in IndexTypeValues
    THEN [exc |-> "None", val |-> Member(x.v)]
    ELSE [exc |-> "ValueError", val |-> x]

\* str(table_name): names are kept as the number or text they print as.
Str(x) == PyStr(x.v)

IndexParam(table_name, index_type, nlist) ==
    IF table_name.t = "NoneType"
    THEN [exc |-> "ParamError", val |-> PyNone]
    ELSE LET name == IF table_name.t # "str" THEN Str(table_name) ELSE table_name
             conv == IF IsInt(index_type)
                     THEN IndexType(index_type)
                     ELSE [exc |-> "None", val |-> index_type]
         IN IF conv.exc # "None"
            THEN [exc |-> conv.exc, val |-> PyNone]
            ELSE IF conv.val.t # "IndexType" \/ conv.val = Member(INVALID)
            THEN [exc |-> "ParamError", val |-> PyNone]
            ELSE [exc |-> "None",
                  val |-> [_table_name |-> name, _index_type |-> conv.val, _nlist |-> nlist]]

TableNameArgs == {PyNone, PyStr(1), PyInt(1)}

IndexTypeArgs ==
    {PyInt(n) : n \in (0 - 1)..MaxIndexInt}
    \cup {Member(n) : n \in IndexTypeValues}
    \cup {PyBool(0), PyBool(1), PyFloat(1), PyStr(1), PyNone}

NlistArgs == {PyInt(1), PyInt(2)}

NewIndexParam ==
    /\ \E table_name \in TableNameArgs, index_type \in IndexTypeArgs, nlist \in NlistArgs :
         LET r == IndexParam(table_name, index_type, nlist)
         IN ret' = [op |-> "IndexParam", self |-> 0,
                    arg |-> <<table_name, index_type, nlist>>,
                    exc |-> r.exc, val |-> r.val]
    /\ UNCHANGED <<response, remaining, objs, timedOut>>

InitNoResult ==
    /\ response = EmptyResponse
    /\ remaining = 0
    /\ objs = <<>>
    /\ timedOut = {}
    /\ ret = NoCall

NextIndexParam == NewIndexParam

SpecIndexParam == InitNoResult /\ [][NextIndexParam]_vars

----------------------------------------------------------------------------
(* ConnectIntf *)

\* Mutant: the body is empty, so every method returns None.
_abstract_pass == "None"

\* raise NotImplementedError('You need to override this function')
_abstract == "NotImplementedError"

\* A method whose body is the call _abstract(): it returns None unless that raises.
Invoke(op, args) ==
    /\ ret' = IF _abstract = "None"
              THEN Returned(op, 0, args, "None")
              ELSE Raised(op, 0, args, _abstract)
    /\ UNCHANGED <<response, remaining, objs, timedOut>>

Opt(x) == {"None", x}
TableNames == {"t1", "t2"}
SmallInts == 1..2

connect ==
    \E host \in Opt("host"), port \in Opt("port"), uri \in Opt("uri"), timeout \in Timeouts :
        Invoke("connect", <<host, port, uri, timeout>>)

connected == Invoke("connected", <<>>)

disconnect == Invoke("disconnect", <<>>)

create_table ==
    \E param \in TableNames, timeout \in Timeouts : Invoke("create_table", <<param, timeout>>)

has_table ==
    \E table_name \in TableNames, timeout \in Timeouts :
        Invoke("has_table", <<table_name, timeout>>)

delete_table ==
    \E table_name \in TableNames, timeout \in Timeouts :
        Invoke("delete_table", <<table_name, timeout>>)

add_vectors ==
    \E table_name \in TableNames, ids \in Opt("ids"), timeout \in Timeouts :
        Invoke("add_vectors", <<table_name, "records", ids, timeout>>)

search_vectors ==
    \E table_name \in TableNames, top_k \in SmallInts, nprobe \in SmallInts,
       query_ranges \in Opt("ranges") :
        Invoke("search_vectors", <<table_name, top_k, nprobe, "records", query_ranges>>)

search_vectors_in_files ==
    \E table_name \in TableNames, top_k \in SmallInts, nprobe \in SmallInts,
       query_ranges \in Opt("ranges") :
        Invoke("search_vectors_in_files",
               <<table_name, "file_ids", "records", top_k, nprobe, query_ranges>>)

describe_table ==
    \E table_name \in TableNames, timeout \in Timeouts :
        Invoke("describe_table", <<table_name, timeout>>)

get_table_row_count ==
    \E table_name \in TableNames, timeout \in Timeouts :
        Invoke("get_table_row_count", <<table_name, timeout>>)

show_tables == \E timeout \in Timeouts : Invoke("show_tables", <<timeout>>)

create_index ==
    \E table_name \in TableNames, index \in Opt("index"), timeout \in Timeouts :
        Invoke("create_index", <<table_name, index, timeout>>)

client_version == Invoke("client_version", <<>>)

server_version == \E timeout \in Timeouts : Invoke("server_version", <<timeout>>)

server_status == \E timeout \in Timeouts : Invoke("server_status", <<timeout>>)

preload_table ==
    \E table_name \in TableNames, timeout \in Timeouts :
        Invoke("preload_table", <<table_name, timeout>>)

describe_index ==
    \E table_name \in TableNames, timeout \in Timeouts :
        Invoke("describe_index", <<table_name, timeout>>)

drop_index ==
    \E table_name \in TableNames, timeout \in Timeouts :
        Invoke("drop_index", <<table_name, timeout>>)

NextConn ==
    \/ connect \/ connected \/ disconnect
    \/ create_table \/ has_table \/ delete_table
    \/ add_vectors \/ search_vectors \/ search_vectors_in_files
    \/ describe_table \/ get_table_row_count \/ show_tables
    \/ create_index \/ describe_index \/ drop_index
    \/ preload_table
    \/ client_version \/ server_version \/ server_status

SpecConn == InitNoResult /\ [][NextConn]_vars

----------------------------------------------------------------------------
(* Properties *)

Queries == response.topk_query_result

NumQueries == Len(Queries)

\* The rows Eager construction on the completed raw response yields.
EagerRows == [i \in 1..NumQueries |-> Queries[i].query_result_arrays]

IsEager(o) == ~objs[o]._async /\ ~objs[o]._lazy

ReadOps == {"shape", "__len__", "__getitem__", "__iter__"}

\* C1: result(timeout) on an Async object (async_=True, whatever lazy_ is)
\* whose future completes in time returns a new object that is not Async and
\* whose rows are those of Eager construction on the completed response.
C1_AsyncResultIsEager ==
    (ret.op = "result" /\ ret.exc = "None" /\ objs[ret.self]._async)
        => /\ ret.val \in DOMAIN objs
           /\ ret.val # ret.self
           /\ ~objs[ret.val]._async
           /\ objs[ret.val]._array = EagerRows

GuardedOps ==
    {"create_table", "has_table", "delete_table", "add_vectors", "search_vectors",
     "search_vectors_in_files", "describe_table", "get_table_row_count", "show_tables",
     "create_index", "describe_index", "drop_index", "preload_table", "server_version",
     "server_status"}

\* C2 (as stated): every ConnectIntf operation other than connect, connected
\* and disconnect, invoked without a successful connect, fails with NotConnected.
C2_FailsNotConnected ==
    ret.op \in GuardedOps => ret.exc = "NotConnected"

\* C2 (amended): connect never succeeds on ConnectIntf, and every operation
\* other than connect, connected and disconnect fails with NotImplementedError.
C2_FailsNotImplemented ==
    /\ ret.op = "connect" => ret.exc # "None"
    /\ ret.op \in GuardedOps => ret.exc = "NotImplementedError"

C2_Witness ==
    ret.op = "search_vectors" /\ ret.exc = "NotImplementedError"

\* C3: after a first read (indexing, len, shape, iteration) a Lazy object
\* (lazy_=True, async_=False) holds the rows Eager construction would produce,
\* and the read returned them.
C3_LazyMaterializesOnRead ==
    (ret.op \in ReadOps /\ objs[ret.self]._lazy /\ ~objs[ret.self]._async)
        => objs[ret.self]._array = EagerRows

\* C4: a result(timeout) call on an Async object whose future does not
\* complete within the timeout raises Timeout and creates no result set.
C4_TimeoutRaises ==
    [][\A o \in DOMAIN objs, t \in Timeouts :
          (result(o, t) /\ objs[o]._async /\ remaining > t)
              => (ret'.exc = "Timeout" /\ ret'.val = 0 /\ objs' = objs)]_vars

C4_Witness ==
    /\ ret.op = "result" /\ ret.exc = "Timeout"
    /\ objs[ret.self]._async
    /\ remaining > 0
    /\ Len(objs) = 1

\* C5: on an Eager object shape is (N, k_0), or (0, 0) when N = 0, and len is
\* N, where N is the number of queries and k_0 the first query's match count.
C5_ShapeAndLen ==
    /\ (ret.op = "shape" /\ IsEager(ret.self))
          => ret.val = <<NumQueries,
                         IF NumQueries = 0 THEN 0 ELSE Len(Queries[1].query_result_arrays)>>
    /\ (ret.op = "__len__" /\ IsEager(ret.self)) => ret.val = NumQueries

C5_Witness ==
    /\ ret.op = "shape" /\ IsEager(ret.self)
    /\ NumQueries = 2
    /\ Len(Queries[1].query_result_arrays) < Len(Queries[2].query_result_arrays)
    /\ ret.val = <<2, Len(Queries[1].query_result_arrays)>>

\* C6: on an Eager object indexing at i, 0 <= i < N, returns the i-th query's
\* matches in the order of the raw response, and at i >= N raises IndexError.
C6_Indexing ==
    (ret.op = "__getitem__" /\ IsEager(ret.self) /\ ret.arg >= 0)
        => IF ret.arg < NumQueries
           THEN ret.exc = "None" /\ ret.val = Queries[ret.arg + 1].query_result_arrays
           ELSE ret.exc = "IndexError"

C6_Witness ==
    /\ ret.op = "__getitem__" /\ IsEager(ret.self) /\ ret.arg = 1
    /\ NumQueries = 2
    /\ Queries[1] # Queries[2]
    /\ ret.exc = "None"
    /\ Len(ret.val) = 2
    /\ ret.val[1].id > ret.val[2].id

\* C7: IndexParam construction raises ParamError and yields no instance when
\* index_type is INVALID (as member or as integer), an integer that is no
\* member's value, or a value that is neither an integer nor a member.
C7_BadIndexTypeIsParamError ==
    (/\ ret.op = "IndexParam"
     /\ LET x == ret.arg[2]
        IN \/ x.t \notin {"int", "bool", "IndexType"}
           \/ x.v = INVALID
           \/ x.v \notin IndexTypeValues)
        => (ret.exc = "ParamError" /\ ret.val = PyNone)

\* C8: an object on which result() raised Timeout is still Async with the same
\* future, and a later result() call that finds the future completed returns
\* the materialized Eager result set.
C8_RetryAfterTimeout ==
    /\ \A o \in timedOut : objs[o]._async /\ objs[o]._raw = Future /\ objs[o]._array = <<>>
    /\ (ret.op = "result" /\ ret.exc = "None" /\ ret.self \in timedOut)
          => /\ ret.val # ret.self
             /\ ~objs[ret.val]._async
             /\ objs[ret.val]._array = EagerRows

\* C9: no call changes the raw response, the flags or the rows of an existing
\* object; result() on an Async object returns a new object, and result() on
\* any other object returns that object.
C9_Frame ==
    [][/\ response' = response
       /\ \A o \in DOMAIN objs : o \in DOMAIN objs' /\ objs'[o] = objs[o]
       /\ \A o \in DOMAIN objs, t \in Timeouts :
            (result(o, t) /\ ret'.exc = "None")
                => IF objs[o]._async
                   THEN ret'.val \notin DOMAIN objs /\ ret'.val \in DOMAIN objs'
                   ELSE ret'.val = o /\ objs' = objs]_vars

C9_Witness ==
    /\ timedOut = {1}
    /\ Len(objs) = 2
    /\ ret.op = "__iter__" /\ ret.self = 1
    /\ objs[1]._async /\ objs[1]._array = <<>>
    /\ Len(objs[2]._array) = 2

\* C10: __repr__ never fails; with more than 5 rows it shows the first 3 rows,
\* each as its first up to 3 matches, the omission marker and the row's last
\* match, and with 5 rows or fewer it shows every match of every row.
C10_ReprSucceeds ==
    ret.op = "__repr__"
        => /\ ret.exc = "None"
           /\ LET array == objs[ret.self]._array
                  short(topk) ==
                      " [ " \o Join(",\n   ", Map(SubSeq(topk, 1, Min(ReprHead, Len(topk)))))
                      \o ",\n   ..."
                      \o (IF topk = <<>> THEN "" ELSE "\n   " \o lam(topk[Len(topk)]))
                      \o " ]\n\n"
                  full(topk) == "[\n" \o Join(",\n", Map(topk)) \o "\n]"
              IN ret.val =
                   IF Len(array) > ReprThreshold
                   THEN "[\n" \o Join("", [i \in 1..ReprHead |-> short(array[i])])
                        \o "        ......\n        ......" \o "\n]"
                   ELSE "[\n" \o Join(",\n", [i \in 1..Len(array) |-> full(array[i])]) \o "\n]"

====
